---- MODULE Spec2Model ----
(***************************************************************************)
(* CartService (src/app/services/cart.service.ts) as a state machine.      *)
(*                                                                         *)
(* The service owns two rxjs BehaviorSubjects, cartItems and cartCount.    *)
(* A BehaviorSubject keeps its last value (_value); next(v) stores v and   *)
(* then calls, synchronously and in subscription order, the observers that *)
(* were subscribed when next was entered; subscribe() registers the        *)
(* observer and calls it at once with the stored value.                    *)
(*                                                                         *)
(* CartItem objects and the arrays that hold them are JavaScript heap      *)
(* objects: addToCart and updateQuantity change an item in place, and the  *)
(* array handed to next() is the array an observer receives.  Both are     *)
(* therefore modelled with identity (objs, arrays), and an operation is    *)
(* cut into the steps between which an observer's callback can look at     *)
(* the service: the body up to the store of the new cartItems value, one   *)
(* step per observer callback, updateCartCount, one step per cartCount     *)
(* observer callback, and the return.                                      *)
(***************************************************************************)
EXTENDS Integers, Sequences, FiniteSets, TLC

\* Largest quantity a line reaches in the model (addToCart is not offered
\* beyond it, updateQuantity is offered every quantity up to it).
MaxQty == 3

\* The display surfaces that subscribe to the feeds.
SubOrder == << "badge", "page" >>
Subs == {SubOrder[i] : i \in 1..Len(SubOrder)}
NoSub == "none"

\* The product tuples callers pass to addToCart: two different tuples for
\* id 1 (a later call with another name, price and image), one for id 2.
ProductInputs ==
    { [id |-> 1, name |-> "A",  price |-> 10, image |-> "a.png"],
      [id |-> 1, name |-> "A2", price |-> 12, image |-> "undefined"],
      [id |-> 2, name |-> "B",  price |-> 5,  image |-> "undefined"] }
NoProduct == [id |-> 0, name |-> "", price |-> 0, image |-> ""]

\* The ids passed to removeFromCart and updateQuantity; 99 is never added.
ProductIds == {1, 2, 99}

\* The quantities passed to updateQuantity.
Quantities == {-5, 0} \cup (1..MaxQty)

\* Calls a subscriber's callback makes back into the service (re-entrant
\* calls): how many per top-level call, which subscriber makes them, and
\* with which arguments.
MaxNested == 1
ReentrantSubs == {"page"}
ReentrantProducts == {p \in ProductInputs : p.id = 2}
ReentrantIds == {1}
ReentrantQuantities == {MaxQty}

VARIABLES
    objs,            \* heap: CartItem object id -> CartItem record
    arrays,          \* heap: array id -> sequence of CartItem object ids
    cartItems,       \* cartItems._value: the id of the current array
    cartCount,       \* cartCount._value
    itemsObservers,  \* observers of cartItems$, in subscription order
    countObservers,  \* observers of cartCount$, in subscription order
    stack,           \* the operations in progress, innermost last
    subs,            \* what each subscriber's callbacks received last
    call,            \* the top-level call in progress or last completed
    log,             \* next() calls and observer notifications of that call
    detail,          \* the fields of the ProductDetailComponent
    search,          \* the fields of the SearchBarComponent
    content,         \* the fields of the ContentComponent
    ui               \* the component method called last, and what it found

\* The components' variables: the service's code reads and writes none.
compVars == << detail, search, content, ui >>

\* The service's variables.
serviceVars == << objs, arrays, cartItems, cartCount, itemsObservers,
                 countObservers, stack, subs, call, log >>

vars == << objs, arrays, cartItems, cartCount, itemsObservers, countObservers,
           stack, subs, call, log, detail, search, content, ui >>

-----------------------------------------------------------------------------
\* Heap helpers.

\* The smallest id not in use.
FreshId(f) ==
    CHOOSE i \in 1..(Cardinality(DOMAIN f) + 1) :
        /\ i \notin DOMAIN f
        /\ \A j \in 1..(i - 1) : j \in DOMAIN f

\* The CartItem records of an array, in order (the value an observer reads).
LinesOf(os, as, a) == [i \in 1..Len(as[a]) |-> os[as[a][i]]]

CurLines == LinesOf(objs, arrays, cartItems)

Idle == stack = << >>
Top == stack[Len(stack)]

\* The references that keep an array alive, in a fixed order: the subject's
\* value, the arrays the subscribers received last, and the arrays being
\* delivered by a next() in progress (0: no reference).
RootSeq(ci, ss, st) ==
    << ci >> \o [i \in 1..Len(SubOrder) |-> ss[SubOrder[i]].linesRef]
             \o [i \in 1..Len(st) |-> IF st[i].pc = "items" THEN st[i].val ELSE 0]

\* The ids of a sequence of references, each once, in order of first use.
RECURSIVE Distinct(_, _)
Distinct(refs, acc) ==
    IF refs = << >> THEN acc
    ELSE IF Head(refs) = 0 \/ \E i \in 1..Len(acc) : acc[i] = Head(refs)
         THEN Distinct(Tail(refs), acc)
         ELSE Distinct(Tail(refs), Append(acc, Head(refs)))

IndexIn(seq, x) == CHOOSE i \in 1..Len(seq) : seq[i] = x

\* The elements of the arrays named by order, concatenated.
RECURSIVE Flatten(_, _)
Flatten(as, order) ==
    IF order = << >> THEN << >>
    ELSE as[Head(order)] \o Flatten(as, Tail(order))

\* The new heap and service state.  Unreferenced arrays and objects are
\* collected and the remaining ones are numbered in order of first use from
\* the roots: a reference is opaque to the program, so two heaps that differ
\* only in their numbering are one state.
Renumbered(os, as, ci, ss, st, ord, oord) ==
    /\ arrays' = [k \in 1..Len(ord) |->
                    [i \in 1..Len(as[ord[k]]) |-> IndexIn(oord, as[ord[k]][i])]]
    /\ objs' = [k \in 1..Len(oord) |-> os[oord[k]]]
    /\ cartItems' = IndexIn(ord, ci)
    /\ subs' = [s \in Subs |->
                  [ss[s] EXCEPT !.linesRef = IF @ = 0 THEN 0 ELSE IndexIn(ord, @)]]
    /\ stack' = [i \in 1..Len(st) |->
                    IF st[i].pc = "items"
                    THEN [st[i] EXCEPT !.val = IndexIn(ord, @)]
                    ELSE st[i]]

Commit(os, as, ci, ss, st) ==
    \E ord \in {Distinct(RootSeq(ci, ss, st), << >>)} :
        \E oord \in {Distinct(Flatten(as, ord), << >>)} :
            Renumbered(os, as, ci, ss, st, ord, oord)

-----------------------------------------------------------------------------
\* The log of a top-level call.

NextEvent(feed, lines, count) ==
    [kind |-> "next", feed |-> feed, sub |-> NoSub, lines |-> lines, count |-> count]
NotifyEvent(feed, s, lines, count) ==
    [kind |-> "notify", feed |-> feed, sub |-> s, lines |-> lines, count |-> count]

\* What the record of a call keeps of the call before it: nothing
\* (NoPrev, the runs that do not look back) or its name, its arguments and
\* the cart it found.
NoPrev == [op |-> "off", id |-> 0, q |-> 0, preLines |-> << >>, preCount |-> 0]
FirstPrev == [NoPrev EXCEPT !.op = "none"]

\* A call made while no operation is in progress starts a new record and log.
Started(op, id, q, product) ==
    [op |-> op, id |-> id, q |-> q, product |-> product,
     preLines |-> CurLines, preCount |-> cartCount,
     status |-> "running", result |-> 0, nested |-> 0,
     prev |-> IF call.prev = NoPrev THEN NoPrev
              ELSE [op |-> call.op, id |-> call.id, q |-> call.q,
                    preLines |-> call.preLines, preCount |-> call.preCount]]

Enter(op, id, q, product) ==
    call' = IF Idle THEN Started(op, id, q, product) ELSE call

LogBase == IF Idle THEN << >> ELSE log

-----------------------------------------------------------------------------
\* The pure pieces of the service's code.

\* Mutant of ExistingItem: find() never finds the item.
ExistingItem_NeverFound(os, items, productId) == 0

\* currentItems.find(item => item.id === productId): index of the first
\* match, 0 for undefined.
ExistingItem(os, items, productId) ==
    LET hits == {i \in 1..Len(items) : os[items[i]].id = productId}
    IN  IF hits = {} THEN 0 ELSE CHOOSE i \in hits : \A j \in hits : i <= j

\* Mutant of IncrementQuantity: the quantity is incremented twice.
IncrementQuantity_Twice(item) == [item EXCEPT !.quantity = @ + 2]

\* existingItem.quantity += 1
IncrementQuantity(item) == [item EXCEPT !.quantity = @ + 1]

\* Mutant of NewItem: the price of a new item is left at 0.
NewItem_NoPrice(product) ==
    [id |-> product.id, name |-> product.name, price |-> 0,
     image |-> product.image, quantity |-> 1]

\* { ...product, quantity: 1 }
NewItem(product) ==
    [id |-> product.id, name |-> product.name, price |-> product.price,
     image |-> product.image, quantity |-> 1]

\* Mutant of AppendItem: the new item is put first.
AppendItem_First(items, o) == << o >> \o items

\* [...currentItems, newItem]
AppendItem(items, o) == Append(items, o)

\* Mutant of KeepItem: the filter's test is inverted.
KeepItem_Inverted(item, productId) == item.id = productId

\* item => item.id !== productId
KeepItem(item, productId) == item.id # productId

\* Mutant of FilterItems: the first item is dropped, whatever its id
\* (shift() in place of filter()).
FilterItems_DropsFirst(os, items, productId) ==
    IF items = << >> THEN << >> ELSE Tail(items)

\* currentItems.filter(item => item.id !== productId)
RECURSIVE FilterItems(_, _, _)
FilterItems(os, items, productId) ==
    IF items = << >> THEN << >>
    ELSE LET rest == FilterItems(os, Tail(items), productId)
         IN  IF KeepItem(os[Head(items)], productId)
             THEN << Head(items) >> \o rest
             ELSE rest

\* Mutants of QuantityIsRemoval: zero is not a removal; only zero is.
QuantityIsRemoval_Negative(quantity) == quantity < 0
QuantityIsRemoval_OnlyZero(quantity) == quantity = 0

\* if (quantity <= 0)
QuantityIsRemoval(quantity) == quantity <= 0

\* Mutant of SetQuantity: the quantity is added to the line's quantity.
SetQuantity_Delta(item, quantity) == [item EXCEPT !.quantity = @ + quantity]

\* item.quantity = quantity
SetQuantity(item, quantity) == [item EXCEPT !.quantity = quantity]

\* reduce((total, item) => total + item.quantity, 0)
RECURSIVE ReduceQuantity(_, _)
ReduceQuantity(total, lines) ==
    IF lines = << >> THEN total
    ELSE ReduceQuantity(total + Head(lines).quantity, Tail(lines))

\* Mutant of ComputeCount: the lines are counted, not their quantities.
ComputeCount_Lines(lines) == Len(lines)

ComputeCount(lines) == ReduceQuantity(0, lines)

\* reduce((total, item) => total + (item.price * item.quantity), 0)
RECURSIVE ReducePrice(_, _)
ReducePrice(total, lines) ==
    IF lines = << >> THEN total
    ELSE ReducePrice(total + (Head(lines).price * Head(lines).quantity), Tail(lines))

\* Mutant of getTotalPrice: the prices are summed without the quantities.
getTotalPrice_NoQuantity ==
    LET sum[n \in 0..Len(CurLines)] ==
            IF n = 0 THEN 0 ELSE sum[n - 1] + CurLines[n].price
    IN  sum[Len(CurLines)]

getTotalPrice == ReducePrice(0, CurLines)

-----------------------------------------------------------------------------
\* this.cartItems.next(items): a new array becomes the subject's value and
\* the delivery to the observers subscribed now begins.
NextItems(op, os, items) ==
    LET a == FreshId(arrays)
        as == (a :> items) @@ arrays
        fr == [op |-> op, pc |-> "items", pending |-> itemsObservers,
               cb |-> NoSub, val |-> a]
    IN  /\ Commit(os, as, a, subs, Append(stack, fr))
        /\ log' = Append(LogBase, NextEvent("lines", LinesOf(os, as, a), 0))
        /\ UNCHANGED << cartCount, itemsObservers, countObservers >>

\* Mutant of addToCart: an existing item is taken out of the list and put
\* back at its end.
addToCart_MovesToEnd(product) ==
    LET currentItems == arrays[cartItems]
        i == ExistingItem(objs, currentItems, product.id)
    IN  IF i # 0
        THEN /\ objs[currentItems[i]].quantity < MaxQty
             /\ NextItems("addToCart",
                          [objs EXCEPT ![currentItems[i]] = IncrementQuantity(@)],
                          Append(SelectSeq(currentItems,
                                           LAMBDA o : o # currentItems[i]),
                                 currentItems[i]))
        ELSE LET o == FreshId(objs)
             IN  NextItems("addToCart",
                           (o :> NewItem(product)) @@ objs,
                           AppendItem(currentItems, o))

\* addToCart, lines 25-34.
addToCart(product) ==
    LET currentItems == arrays[cartItems]
        i == ExistingItem(objs, currentItems, product.id)
    IN  IF i # 0
        THEN /\ objs[currentItems[i]].quantity < MaxQty
             /\ NextItems("addToCart",
                          [objs EXCEPT ![currentItems[i]] = IncrementQuantity(@)],
                          currentItems)
        ELSE LET o == FreshId(objs)
             IN  NextItems("addToCart",
                           (o :> NewItem(product)) @@ objs,
                           AppendItem(currentItems, o))

\* Mutant of removeFromCart: an item of several units loses one unit, an
\* item of one unit is removed.
removeFromCart_Decrements(productId) ==
    LET currentItems == arrays[cartItems]
        i == ExistingItem(objs, currentItems, productId)
    IN  IF i # 0 /\ objs[currentItems[i]].quantity > 1
        THEN NextItems("removeFromCart",
                       [objs EXCEPT ![currentItems[i]].quantity = @ - 1],
                       currentItems)
        ELSE NextItems("removeFromCart", objs,
                       FilterItems(objs, currentItems, productId))

\* removeFromCart, lines 40-42.
removeFromCart(productId) ==
    NextItems("removeFromCart", objs, FilterItems(objs, arrays[cartItems], productId))

\* Mutant of updateQuantity: a quantity for an item that is not in the cart
\* creates the item.
updateQuantity_CreatesItem(productId, quantity) ==
    IF QuantityIsRemoval(quantity)
    THEN removeFromCart(productId)
    ELSE LET currentItems == arrays[cartItems]
             i == ExistingItem(objs, currentItems, productId)
         IN  IF i # 0
             THEN NextItems("updateQuantity",
                            [objs EXCEPT ![currentItems[i]] = SetQuantity(@, quantity)],
                            currentItems)
             ELSE LET o == FreshId(objs)
                  IN  NextItems("updateQuantity",
                                (o :> SetQuantity(NewItem([NoProduct EXCEPT !.id = productId]),
                                                  quantity)) @@ objs,
                                AppendItem(currentItems, o))

\* Mutant of updateQuantity: next() is called whether or not the item exists.
updateQuantity_AlwaysPublishes(productId, quantity) ==
    IF QuantityIsRemoval(quantity)
    THEN removeFromCart(productId)
    ELSE LET currentItems == arrays[cartItems]
             i == ExistingItem(objs, currentItems, productId)
         IN  NextItems("updateQuantity",
                       IF i # 0
                       THEN [objs EXCEPT ![currentItems[i]] = SetQuantity(@, quantity)]
                       ELSE objs,
                       currentItems)

\* updateQuantity, lines 47-59.
updateQuantity(productId, quantity) ==
    IF QuantityIsRemoval(quantity)
    THEN removeFromCart(productId)
    ELSE LET currentItems == arrays[cartItems]
             i == ExistingItem(objs, currentItems, productId)
         IN  IF i # 0
             THEN NextItems("updateQuantity",
                            [objs EXCEPT ![currentItems[i]] = SetQuantity(@, quantity)],
                            currentItems)
             ELSE \* no item: nothing is published and the call returns
                  /\ log' = LogBase
                  /\ UNCHANGED << objs, arrays, cartItems, cartCount,
                                  itemsObservers, countObservers, stack, subs >>

\* Mutant of clearCart: the current items are published again.
clearCart_KeepsItems == NextItems("clearCart", objs, arrays[cartItems])

\* clearCart, line 63.
clearCart == NextItems("clearCart", objs, << >>)

-----------------------------------------------------------------------------
\* The calls of the UI collaborators, made while no operation is in progress.

CallAddToCart ==
    \E product \in ProductInputs :
        /\ Idle
        /\ Enter("addToCart", product.id, 0, product)
        /\ addToCart(product)
        /\ UNCHANGED compVars

CallRemoveFromCart ==
    \E productId \in ProductIds :
        /\ Idle
        /\ Enter("removeFromCart", productId, 0, NoProduct)
        /\ removeFromCart(productId)
        /\ UNCHANGED compVars

CallUpdateQuantity ==
    \E productId \in ProductIds, quantity \in Quantities :
        /\ Idle
        /\ updateQuantity(productId, quantity)
        /\ call' = [Started("updateQuantity", productId, quantity, NoProduct)
                        EXCEPT !.status = IF stack' = << >> THEN "returned"
                                          ELSE "running"]
        /\ UNCHANGED compVars

CallClearCart ==
    /\ Idle
    /\ Enter("clearCart", 0, 0, NoProduct)
    /\ clearCart
    /\ UNCHANGED compVars

\* Mutant of CallGetTotalPrice: the total is stored in cartCount.
CallGetTotalPrice_Caches ==
    /\ Idle
    /\ call' = [Started("getTotalPrice", 0, 0, NoProduct)
                    EXCEPT !.status = "returned", !.result = getTotalPrice]
    /\ cartCount' = getTotalPrice
    /\ log' = << NextEvent("count", << >>, getTotalPrice) >>
    /\ UNCHANGED << objs, arrays, cartItems, itemsObservers, countObservers,
                    stack, subs >>
    /\ UNCHANGED compVars

CallGetTotalPrice ==
    /\ Idle
    /\ call' = [Started("getTotalPrice", 0, 0, NoProduct)
                    EXCEPT !.status = "returned", !.result = getTotalPrice]
    /\ log' = << >>
    /\ UNCHANGED << objs, arrays, cartItems, cartCount, itemsObservers,
                    countObservers, stack, subs >>
    /\ UNCHANGED compVars

-----------------------------------------------------------------------------
\* The steps of an operation in progress.

\* An observer of cartItems$ is called with the array passed to next().
NotifyItems ==
    /\ ~Idle
    /\ Top.pc = "items"
    /\ Top.pending # << >>
    /\ LET s == Head(Top.pending)
           lines == LinesOf(objs, arrays, Top.val)
           ss == [subs EXCEPT ![s].linesRef = Top.val, ![s].lines = lines,
                              ![s].gotLines = TRUE]
           st == [stack EXCEPT ![Len(stack)].pending = Tail(@),
                               ![Len(stack)].cb = s]
       IN  /\ Commit(objs, arrays, cartItems, ss, st)
           /\ log' = Append(log, NotifyEvent("lines", s, lines, 0))
    /\ UNCHANGED << cartCount, itemsObservers, countObservers, call >>
    /\ UNCHANGED compVars

\* Mutant of UpdateCartCount: next() is called only when the count changed.
UpdateCartCount_OnlyIfChanged ==
    /\ ~Idle
    /\ Top.pc = "items"
    /\ Top.pending = << >>
    /\ LET count == ComputeCount(CurLines)
           changed == count # cartCount
           st == [stack EXCEPT ![Len(stack)] =
                     [@ EXCEPT !.pc = "count",
                               !.pending = IF changed THEN countObservers ELSE << >>,
                               !.cb = NoSub, !.val = count]]
       IN  /\ cartCount' = count
           /\ Commit(objs, arrays, cartItems, subs, st)
           /\ log' = IF changed THEN Append(log, NextEvent("count", << >>, count))
                     ELSE log
    /\ UNCHANGED << itemsObservers, countObservers, call >>
    /\ UNCHANGED compVars

\* updateCartCount, lines 73-78, entered when cartItems.next() has returned.
UpdateCartCount ==
    /\ ~Idle
    /\ Top.pc = "items"
    /\ Top.pending = << >>
    /\ LET count == ComputeCount(CurLines)
           st == [stack EXCEPT ![Len(stack)] =
                     [@ EXCEPT !.pc = "count", !.pending = countObservers,
                               !.cb = NoSub, !.val = count]]
       IN  /\ cartCount' = count
           /\ Commit(objs, arrays, cartItems, subs, st)
           /\ log' = Append(log, NextEvent("count", << >>, count))
    /\ UNCHANGED << itemsObservers, countObservers, call >>
    /\ UNCHANGED compVars

\* An observer of cartCount$ is called with the count passed to next().
NotifyCount ==
    /\ ~Idle
    /\ Top.pc = "count"
    /\ Top.pending # << >>
    /\ LET s == Head(Top.pending)
           ss == [subs EXCEPT ![s].count = Top.val, ![s].gotCount = TRUE]
           st == [stack EXCEPT ![Len(stack)].pending = Tail(@),
                               ![Len(stack)].cb = s]
       IN  /\ Commit(objs, arrays, cartItems, ss, st)
           /\ log' = Append(log, NotifyEvent("count", s, << >>, Top.val))
    /\ UNCHANGED << cartCount, itemsObservers, countObservers, call >>
    /\ UNCHANGED compVars

\* Mutant of Return: the operation returns with count observers still to
\* be called (an asynchronous delivery).
Return_Early ==
    /\ ~Idle
    /\ Top.pc = "count"
    /\ Commit(objs, arrays, cartItems, subs, SubSeq(stack, 1, Len(stack) - 1))
    /\ call' = IF Len(stack) = 1 THEN [call EXCEPT !.status = "returned"] ELSE call
    /\ UNCHANGED << cartCount, itemsObservers, countObservers, log >>
    /\ UNCHANGED compVars

\* cartCount.next() has returned, and with it the operation.
Return ==
    /\ ~Idle
    /\ Top.pc = "count"
    /\ Top.pending = << >>
    /\ Commit(objs, arrays, cartItems, subs, SubSeq(stack, 1, Len(stack) - 1))
    /\ call' = IF Len(stack) = 1 THEN [call EXCEPT !.status = "returned"] ELSE call
    /\ UNCHANGED << cartCount, itemsObservers, countObservers, log >>
    /\ UNCHANGED compVars

-----------------------------------------------------------------------------
\* cartItems$.subscribe / cartCount$.subscribe: the observer is registered
\* and called at once with the subject's value.

\* Mutant of SubscribeItems: the subject does not replay its value (a plain
\* Subject).
SubscribeItems_NoReplay ==
    \E s \in Subs :
        /\ Idle
        /\ \A i \in 1..Len(itemsObservers) : itemsObservers[i] # s
        /\ itemsObservers' = Append(itemsObservers, s)
        /\ call' = [Started("subscribeItems", 0, 0, NoProduct)
                        EXCEPT !.status = "returned"]
        /\ log' = << >>
        /\ UNCHANGED << objs, arrays, cartItems, cartCount, countObservers,
                        stack, subs >>
        /\ UNCHANGED compVars

SubscribeItems ==
    \E s \in Subs :
        /\ Idle
        /\ \A i \in 1..Len(itemsObservers) : itemsObservers[i] # s
        /\ itemsObservers' = Append(itemsObservers, s)
        /\ Commit(objs, arrays, cartItems,
                  [subs EXCEPT ![s].linesRef = cartItems, ![s].lines = CurLines,
                               ![s].gotLines = TRUE],
                  stack)
        /\ call' = [Started("subscribeItems", 0, 0, NoProduct)
                        EXCEPT !.status = "returned"]
        /\ log' = << NotifyEvent("lines", s, CurLines, 0) >>
        /\ UNCHANGED << cartCount, countObservers >>
        /\ UNCHANGED compVars

SubscribeCount ==
    \E s \in Subs :
        /\ Idle
        /\ \A i \in 1..Len(countObservers) : countObservers[i] # s
        /\ countObservers' = Append(countObservers, s)
        /\ Commit(objs, arrays, cartItems,
                  [subs EXCEPT ![s].count = cartCount, ![s].gotCount = TRUE],
                  stack)
        /\ call' = [Started("subscribeCount", 0, 0, NoProduct)
                        EXCEPT !.status = "returned"]
        /\ log' = << NotifyEvent("count", s, << >>, cartCount) >>
        /\ UNCHANGED << cartCount, itemsObservers >>
        /\ UNCHANGED compVars

-----------------------------------------------------------------------------
\* The components (ProductDetailComponent, SearchBarComponent,
\* ContentComponent): the values they work on and their state after
\* construction.

\* JavaScript values where their type matters: null, NaN, a number, a
\* string (the sequence of its characters).
JSNull == [t |-> "null"]
NaN == [t |-> "nan"]
Num(n) == [t |-> "number", n |-> n]
Str(cs) == [t |-> "string", s |-> cs]

DigitChars == << "0", "1", "2", "3", "4", "5", "6", "7", "8", "9" >>
IsDigit(c) == \E d \in 1..Len(DigitChars) : DigitChars[d] = c
DigitValue(c) == (CHOOSE d \in 1..Len(DigitChars) : DigitChars[d] = c) - 1

\* The characters of a string without the white space at its ends.
RECURSIVE Trim(_)
Trim(cs) ==
    IF cs = << >> THEN cs
    ELSE IF Head(cs) = " " THEN Trim(Tail(cs))
    ELSE IF cs[Len(cs)] = " " THEN Trim(SubSeq(cs, 1, Len(cs) - 1))
    ELSE cs

\* The value of a string of decimal digits.
RECURSIVE DecimalValue(_, _)
DecimalValue(acc, cs) ==
    IF cs = << >> THEN acc
    ELSE DecimalValue(10 * acc + DigitValue(Head(cs)), Tail(cs))

\* Number(x) for null, numbers and strings of digits, white space and
\* other characters: null and the blank string give 0, a string that is
\* not a numeral gives NaN.
Number(x) ==
    CASE x.t = "null" -> Num(0)
      [] x.t = "nan" -> NaN
      [] x.t = "number" -> x
      [] x.t = "string" ->
            LET cs == Trim(x.s)
            IN  IF cs = << >> THEN Num(0)
                ELSE IF \A k \in 1..Len(cs) : IsDigit(cs[k])
                     THEN Num(DecimalValue(0, cs))
                     ELSE NaN

\* n === x for a number n of the program's data: NaN equals nothing.
StrictEquals(n, x) == x.t = "number" /\ x.n = n

\* ProductDetailComponent.mockProducts, the fields its methods read; the
\* prices are in cents (99.99 is 9999).
mockProducts ==
    << [id |-> 1, name |-> "Wireless Headphones", price |-> 9999,
        image |-> "https://via.placeholder.com/400x300", stock |-> 15],
       [id |-> 2, name |-> "Smart Watch", price |-> 29999,
        image |-> "https://via.placeholder.com/400x300", stock |-> 8],
       [id |-> 3, name |-> "Running Shoes", price |-> 7999,
        image |-> "https://via.placeholder.com/400x300", stock |-> 25] >>

\* product = null, loading = true, quantity = 1; routeParam is what the
\* route gives for 'id', timers holds the id each pending setTimeout
\* callback captured.
ConstructedDetail(routeParam) ==
    [product |-> JSNull, loading |-> TRUE, quantity |-> 1,
     routeParam |-> routeParam, initialised |-> FALSE, timers |-> << >>]

\* searchTerm = '', isSearching = false.
ConstructedSearch == [searchTerm |-> << >>, isSearching |-> FALSE]

\* products = [], categories = [], filteredProducts = [],
\* selectedCategoryId = 0.
ConstructedContent ==
    [products |-> << >>, categories |-> << >>, filteredProducts |-> << >>,
     selectedCategoryId |-> Num(0), initialised |-> FALSE]

\* No component method has been called.  Otherwise ui names the method
\* called last, with the component's fields, the service's call record,
\* lines and count as the method found them, and the events it emitted.
NoUiCall ==
    [comp |-> "none", op |-> "new", pre |-> JSNull, emitted |-> << >>,
     preCall |-> JSNull, preLines |-> << >>, preCount |-> 0]

Constructed ==
    /\ detail = ConstructedDetail(JSNull)
    /\ search = ConstructedSearch
    /\ content = ConstructedContent
    /\ ui = NoUiCall

-----------------------------------------------------------------------------

\* Mutant of Init: the service starts from a cart kept from an earlier
\* session.
Init_Persisted ==
    /\ objs = << [id |-> 1, name |-> "A", price |-> 10, image |-> "a.png",
                  quantity |-> 1] >>
    /\ arrays = << << 1 >> >>
    /\ cartItems = 1
    /\ cartCount = 1
    /\ itemsObservers = << >>
    /\ countObservers = << >>
    /\ stack = << >>
    /\ subs = [s \in Subs |-> [linesRef |-> 0, lines |-> << >>, gotLines |-> FALSE,
                               count |-> 0, gotCount |-> FALSE]]
    /\ call = [op |-> "new", id |-> 0, q |-> 0, product |-> NoProduct,
               preLines |-> << >>, preCount |-> 0, status |-> "returned",
               result |-> 0, nested |-> 0, prev |-> NoPrev]
    /\ log = << >>
    /\ Constructed

\* new BehaviorSubject<CartItem[]>([]) and new BehaviorSubject<number>(0),
\* no observer yet.
Init ==
    /\ objs = << >>
    /\ arrays = << << >> >>
    /\ cartItems = 1
    /\ cartCount = 0
    /\ itemsObservers = << >>
    /\ countObservers = << >>
    /\ stack = << >>
    /\ subs = [s \in Subs |-> [linesRef |-> 0, lines |-> << >>, gotLines |-> FALSE,
                               count |-> 0, gotCount |-> FALSE]]
    /\ call = [op |-> "new", id |-> 0, q |-> 0, product |-> NoProduct,
               preLines |-> << >>, preCount |-> 0, status |-> "returned",
               result |-> 0, nested |-> 0, prev |-> NoPrev]
    /\ log = << >>
    /\ Constructed

Next ==
    \/ CallAddToCart
    \/ CallRemoveFromCart
    \/ CallUpdateQuantity
    \/ CallClearCart
    \/ CallGetTotalPrice
    \/ SubscribeItems
    \/ SubscribeCount
    \/ NotifyItems
    \/ UpdateCartCount
    \/ NotifyCount
    \/ Return

Spec == Init /\ [][Next]_vars

-----------------------------------------------------------------------------
\* Re-entrant calls.  The service's methods are plain synchronous methods:
\* a call made by an observer's callback runs at once, on top of the
\* operation whose next() is delivering, and that operation goes on when
\* the callback returns.

NestedCall ==
    /\ ~Idle
    /\ Top.cb \in ReentrantSubs
    /\ call.nested < MaxNested
    /\ call' = [call EXCEPT !.nested = @ + 1]
    /\ \/ \E product \in ReentrantProducts : addToCart(product)
       \/ \E productId \in ReentrantIds : removeFromCart(productId)
       \/ \E productId \in ReentrantIds, quantity \in ReentrantQuantities :
              updateQuantity(productId, quantity)
       \/ clearCart
    /\ UNCHANGED compVars

\* The environment of the re-entrant runs: top-level addToCart,
\* removeFromCart and clearCart, the subscriptions, and the calls made from
\* callbacks (updateQuantity among them).
NextReentrant ==
    \/ CallAddToCart
    \/ CallRemoveFromCart
    \/ CallClearCart
    \/ SubscribeItems
    \/ SubscribeCount
    \/ NotifyItems
    \/ UpdateCartCount
    \/ NotifyCount
    \/ Return
    \/ NestedCall

SpecReentrant == Init /\ [][NextReentrant]_vars

-----------------------------------------------------------------------------
\* A collaborator that writes to what it received.  cartItems$ hands an
\* observer the array that is cartItems._value, holding the CartItem objects
\* the service holds (lines 16-19: asObservable() hides next(), it does not
\* copy the value), so a write by the observer is a write to the heap the
\* service reads.  The writes are made while no operation is in progress,
\* by a subscriber on the array it received last.

\* The quantities a collaborator writes into a line record.
CollaboratorQuantities == {MaxQty}

\* items[i].quantity = q on the received array.
CollaboratorSetsQuantity ==
    \E s \in Subs, q \in CollaboratorQuantities :
        /\ Idle
        /\ subs[s].linesRef # 0
        /\ \E i \in 1..Len(arrays[subs[s].linesRef]) :
              LET o == arrays[subs[s].linesRef][i]
              IN  /\ objs[o].quantity # q
                  /\ call' = [Started("collaboratorWrite", objs[o].id, q, NoProduct)
                                 EXCEPT !.status = "returned"]
                  /\ objs' = [objs EXCEPT ![o].quantity = q]
        /\ log' = << >>
        /\ UNCHANGED << arrays, cartItems, cartCount, itemsObservers,
                        countObservers, stack, subs >>
        /\ UNCHANGED compVars

\* items.pop() on the received array.
CollaboratorPopsLine ==
    \E s \in Subs :
        /\ Idle
        /\ subs[s].linesRef # 0
        /\ arrays[subs[s].linesRef] # << >>
        /\ LET a == subs[s].linesRef
               last == arrays[a][Len(arrays[a])]
           IN  /\ call' = [Started("collaboratorWrite", objs[last].id, 0, NoProduct)
                              EXCEPT !.status = "returned"]
               /\ Commit(objs,
                         [arrays EXCEPT ![a] = SubSeq(@, 1, Len(@) - 1)],
                         cartItems, subs, stack)
        /\ log' = << >>
        /\ UNCHANGED << cartCount, itemsObservers, countObservers >>
        /\ UNCHANGED compVars

\* The environment of the runs with a writing collaborator: the calls that
\* add and remove lines, the query, the subscriptions and the writes.
NextCollaborator ==
    \/ CallAddToCart
    \/ CallRemoveFromCart
    \/ CallClearCart
    \/ CallGetTotalPrice
    \/ SubscribeItems
    \/ SubscribeCount
    \/ NotifyItems
    \/ UpdateCartCount
    \/ NotifyCount
    \/ Return
    \/ CollaboratorSetsQuantity
    \/ CollaboratorPopsLine

SpecCollaborator == Init /\ [][NextCollaborator]_vars

-----------------------------------------------------------------------------
\* The service alone, with three products.  No observer is subscribed in
\* these runs: next() stores the value and has nobody to call, so an
\* operation is its body, updateCartCount and the return.  The carts
\* reached hold up to three lines in every order of insertion.

WideProductInputs ==
    ProductInputs \cup { [id |-> 3, name |-> "C", price |-> 7, image |-> "c.png"] }
WideProductIds == ProductIds \cup {3}

WideAddToCart ==
    \E product \in WideProductInputs :
        /\ Idle
        /\ Enter("addToCart", product.id, 0, product)
        /\ addToCart(product)
        /\ UNCHANGED compVars

WideRemoveFromCart ==
    \E productId \in WideProductIds :
        /\ Idle
        /\ Enter("removeFromCart", productId, 0, NoProduct)
        /\ removeFromCart(productId)
        /\ UNCHANGED compVars

\* Mutant of WideUpdateQuantity: a quantity for an item that is not in the
\* cart is rejected with an exception.
WideUpdateQuantity_Throws ==
    \E productId \in WideProductIds, quantity \in Quantities :
        /\ Idle
        /\ IF /\ ~QuantityIsRemoval(quantity)
              /\ ExistingItem(objs, arrays[cartItems], productId) = 0
           THEN /\ call' = [Started("updateQuantity", productId, quantity, NoProduct)
                               EXCEPT !.status = "threw"]
                /\ log' = << >>
                /\ UNCHANGED << objs, arrays, cartItems, cartCount,
                                itemsObservers, countObservers, stack, subs >>
           ELSE /\ updateQuantity(productId, quantity)
                /\ call' = [Started("updateQuantity", productId, quantity, NoProduct)
                               EXCEPT !.status = IF stack' = << >> THEN "returned"
                                                 ELSE "running"]
        /\ UNCHANGED compVars

WideUpdateQuantity ==
    \E productId \in WideProductIds, quantity \in Quantities :
        /\ Idle
        /\ updateQuantity(productId, quantity)
        /\ call' = [Started("updateQuantity", productId, quantity, NoProduct)
                        EXCEPT !.status = IF stack' = << >> THEN "returned"
                                          ELSE "running"]
        /\ UNCHANGED compVars

NextWide ==
    \/ WideAddToCart
    \/ WideRemoveFromCart
    \/ WideUpdateQuantity
    \/ CallClearCart
    \/ CallGetTotalPrice
    \/ UpdateCartCount
    \/ Return

SpecWide == Init /\ [][NextWide]_vars

-----------------------------------------------------------------------------
\* Calls in a row.  In these runs the record of a call keeps the call made
\* before it, so that what two calls in a row did can be compared with what
\* the first of them did.  As in the runs with three products no observer
\* is subscribed.

InitPairs ==
    /\ objs = << >>
    /\ arrays = << << >> >>
    /\ cartItems = 1
    /\ cartCount = 0
    /\ itemsObservers = << >>
    /\ countObservers = << >>
    /\ stack = << >>
    /\ subs = [s \in Subs |-> [linesRef |-> 0, lines |-> << >>, gotLines |-> FALSE,
                               count |-> 0, gotCount |-> FALSE]]
    /\ call = [op |-> "new", id |-> 0, q |-> 0, product |-> NoProduct,
               preLines |-> << >>, preCount |-> 0, status |-> "returned",
               result |-> 0, nested |-> 0, prev |-> FirstPrev]
    /\ log = << >>
    /\ Constructed

NextPairs ==
    \/ CallAddToCart
    \/ CallRemoveFromCart
    \/ CallUpdateQuantity
    \/ CallClearCart
    \/ UpdateCartCount
    \/ Return

SpecPairs == InitPairs /\ [][NextPairs]_vars

-----------------------------------------------------------------------------
\* ProductDetailComponent.  Angular constructs the component, calls
\* ngOnInit once and then calls the other methods from the template's
\* events; a method or a timer callback runs when nothing else runs, so
\* never inside a call of the service.  alert() is left out: it shows a
\* message after the service's call has returned.

\* What the route gives for 'id': nothing, or a string.
RouteParams ==
    { JSNull,
      Str(<< "1" >>), Str(<< "2" >>), Str(<< "3" >>),
      Str(<< "0", "2" >>), Str(<< " ", "3" >>),
      Str(<< "9", "9" >>), Str(<< "a", "1" >>), Str(<< >>) }

\* The record of a component method that starts now.
UiCall(comp, op, pre) ==
    [comp |-> comp, op |-> op, pre |-> pre, emitted |-> << >>,
     preCall |-> call, preLines |-> CurLines, preCount |-> cartCount]

\* Mutant of FindProduct: the product is looked up by its position in the
\* list.
FindProduct_ByIndex(id) ==
    IF id.t = "number" /\ id.n + 1 \in 1..Len(mockProducts)
    THEN mockProducts[id.n + 1]
    ELSE JSNull

\* this.mockProducts.find(p => p.id === id) || null
FindProduct(id) ==
    LET hits == {k \in 1..Len(mockProducts) : StrictEquals(mockProducts[k].id, id)}
    IN  IF hits = {} THEN JSNull
        ELSE mockProducts[CHOOSE k \in hits : \A j \in hits : k <= j]

\* ngOnInit and loadProduct up to setTimeout: the id is read from the
\* route and the callback is scheduled.
DetailNgOnInit ==
    /\ Idle
    /\ ~detail.initialised
    /\ detail' = [detail EXCEPT !.initialised = TRUE,
                                !.timers = Append(@, Number(detail.routeParam))]
    /\ ui' = UiCall("detail", "ngOnInit", detail)
    /\ UNCHANGED << serviceVars, search, content >>

\* Mutant of LoadProductTimeout: loading ends only when a product was
\* found.
LoadProductTimeout_KeepsLoading ==
    /\ Idle
    /\ detail.timers # << >>
    /\ LET found == FindProduct(Head(detail.timers))
       IN  detail' = [detail EXCEPT !.product = found,
                                    !.loading = IF found = JSNull THEN @ ELSE FALSE,
                                    !.timers = Tail(@)]
    /\ ui' = UiCall("detail", "timeout", detail)
    /\ UNCHANGED << serviceVars, search, content >>

\* The callback passed to setTimeout, lines 106-109.
LoadProductTimeout ==
    /\ Idle
    /\ detail.timers # << >>
    /\ detail' = [detail EXCEPT !.product = FindProduct(Head(detail.timers)),
                                !.loading = FALSE,
                                !.timers = Tail(@)]
    /\ ui' = UiCall("detail", "timeout", detail)
    /\ UNCHANGED << serviceVars, search, content >>

\* { id, name, price, image } of the product.
CartProduct(p) ==
    [id |-> p.id, name |-> p.name, price |-> p.price, image |-> p.image]

\* Mutant of DetailAddToCart: the product is added only while the quantity
\* selected is 1.
DetailAddToCart_OnlySingle ==
    /\ Idle
    /\ detail.initialised
    /\ ui' = UiCall("detail", "addToCart", detail)
    /\ IF detail.product # JSNull /\ detail.quantity = 1
       THEN /\ Enter("addToCart", detail.product.id, 0, CartProduct(detail.product))
            /\ addToCart(CartProduct(detail.product))
       ELSE UNCHANGED serviceVars
    /\ UNCHANGED << detail, search, content >>

\* ProductDetailComponent.addToCart, lines 112-122.
DetailAddToCart ==
    /\ Idle
    /\ detail.initialised
    /\ ui' = UiCall("detail", "addToCart", detail)
    /\ IF detail.product # JSNull
       THEN /\ Enter("addToCart", detail.product.id, 0, CartProduct(detail.product))
            /\ addToCart(CartProduct(detail.product))
       ELSE UNCHANGED serviceVars
    /\ UNCHANGED << detail, search, content >>

\* Mutant of MayIncrease: the quantity is not compared with the stock.
MayIncrease_NoStockTest(d) == d.product # JSNull

\* this.product && this.quantity < this.product.stock
MayIncrease(d) == d.product # JSNull /\ d.quantity < d.product.stock

increaseQuantity ==
    /\ Idle
    /\ detail.initialised
    /\ detail' = IF MayIncrease(detail) THEN [detail EXCEPT !.quantity = @ + 1]
                 ELSE detail
    /\ ui' = UiCall("detail", "increaseQuantity", detail)
    /\ UNCHANGED << serviceVars, search, content >>

decreaseQuantity ==
    /\ Idle
    /\ detail.initialised
    /\ detail' = IF detail.quantity > 1 THEN [detail EXCEPT !.quantity = @ - 1]
                 ELSE detail
    /\ ui' = UiCall("detail", "decreaseQuantity", detail)
    /\ UNCHANGED << serviceVars, search, content >>

\* The service as constructed, the component as constructed for a route.
InitDetail ==
    /\ objs = << >>
    /\ arrays = << << >> >>
    /\ cartItems = 1
    /\ cartCount = 0
    /\ itemsObservers = << >>
    /\ countObservers = << >>
    /\ stack = << >>
    /\ subs = [s \in Subs |-> [linesRef |-> 0, lines |-> << >>, gotLines |-> FALSE,
                               count |-> 0, gotCount |-> FALSE]]
    /\ call = [op |-> "new", id |-> 0, q |-> 0, product |-> NoProduct,
               preLines |-> << >>, preCount |-> 0, status |-> "returned",
               result |-> 0, nested |-> 0, prev |-> NoPrev]
    /\ log = << >>
    /\ \E routeParam \in RouteParams : detail = ConstructedDetail(routeParam)
    /\ search = ConstructedSearch
    /\ content = ConstructedContent
    /\ ui = NoUiCall

NextDetail ==
    \/ DetailNgOnInit
    \/ LoadProductTimeout
    \/ DetailAddToCart
    \/ increaseQuantity
    \/ decreaseQuantity
    \/ UpdateCartCount
    \/ Return

SpecDetail == InitDetail /\ [][NextDetail]_vars

\* The same with the scheduling of the browser: the callback of a timer
\* that was set runs once its delay has passed and nothing else runs (no
\* code cancels the timer, and every method returns).
SpecDetailLive == SpecDetail /\ WF_vars(LoadProductTimeout)

-----------------------------------------------------------------------------
\* SearchBarComponent.  searchTerm is a public field the template's input
\* is bound to: the binding writes what the user has typed, and the
\* template's events call onSearchInput and clearSearch.  A string is the
\* sequence of its characters; searchChange.emit(v) is recorded in
\* ui.emitted.

\* The longest text typed and the characters it is made of.
MaxTermLen == 3
TermChars == {"a", " "}
SearchTerms == UNION {[1..n -> TermChars] : n \in 0..MaxTermLen}

\* The input's binding writes searchTerm.
SetSearchTerm ==
    \E term \in SearchTerms :
        /\ term # search.searchTerm
        /\ search' = [search EXCEPT !.searchTerm = term]
        /\ ui' = UiCall("search", "setSearchTerm", search)
        /\ UNCHANGED << serviceVars, detail, content >>

\* Mutant of IsSearchingFor: white space does not count.
IsSearchingFor_Trimmed(term) == Len(Trim(term)) > 0

\* this.searchTerm.length > 0
IsSearchingFor(term) == Len(term) > 0

\* onSearchInput, lines 18-21.
onSearchInput ==
    /\ search' = [search EXCEPT !.isSearching = IsSearchingFor(search.searchTerm)]
    /\ ui' = [UiCall("search", "onSearchInput", search)
                 EXCEPT !.emitted = << search.searchTerm >>]
    /\ UNCHANGED << serviceVars, detail, content >>

\* clearSearch, lines 23-27.
clearSearch ==
    /\ search' = [search EXCEPT !.searchTerm = << >>, !.isSearching = FALSE]
    /\ ui' = [UiCall("search", "clearSearch", search)
                 EXCEPT !.emitted = << << >> >>]
    /\ UNCHANGED << serviceVars, detail, content >>

NextSearch ==
    \/ SetSearchTerm
    \/ onSearchInput
    \/ clearSearch

SpecSearch == Init /\ [][NextSearch]_vars

-----------------------------------------------------------------------------
\* ContentComponent.  Angular calls ngOnInit once, before the template is
\* shown; from then on the template's select is bound to the public field
\* selectedCategoryId and its change event calls onCategoryChange.  Of a
\* product the fields the methods read are kept, with the price in cents.

\* initializeCategories, lines 28-34.
initializeCategories ==
    << [id |-> 0, name |-> "All Categories"],
       [id |-> 1, name |-> "Electronics"],
       [id |-> 2, name |-> "Clothing"],
       [id |-> 3, name |-> "Books"],
       [id |-> 4, name |-> "Sports"] >>

\* initializeProducts, lines 38-119.
initializeProducts ==
    << [id |-> 1, name |-> "Smartphone",       price |-> 59999, categoryId |-> 1, inStock |-> TRUE],
       [id |-> 2, name |-> "Laptop",           price |-> 99999, categoryId |-> 1, inStock |-> TRUE],
       [id |-> 3, name |-> "T-Shirt",          price |-> 1999,  categoryId |-> 2, inStock |-> TRUE],
       [id |-> 4, name |-> "Jeans",            price |-> 4999,  categoryId |-> 2, inStock |-> FALSE],
       [id |-> 5, name |-> "Programming Book", price |-> 3999,  categoryId |-> 3, inStock |-> TRUE],
       [id |-> 6, name |-> "Football",         price |-> 2999,  categoryId |-> 4, inStock |-> TRUE],
       [id |-> 7, name |-> "Headphones",       price |-> 19999, categoryId |-> 1, inStock |-> TRUE],
       [id |-> 8, name |-> "Running Shoes",    price |-> 8999,  categoryId |-> 4, inStock |-> TRUE] >>

\* What the select writes for a category: its id, as a number or as the
\* string of the option's value.
SelectValues ==
    {Num(initializeCategories[k].id) : k \in 1..Len(initializeCategories)}
    \cup {Str(<< DigitChars[initializeCategories[k].id + 1] >>) :
              k \in 1..Len(initializeCategories)}

\* ngOnInit, lines 21-25.
ContentNgOnInit ==
    /\ ~content.initialised
    /\ content' = [content EXCEPT !.categories = initializeCategories,
                                  !.products = initializeProducts,
                                  !.filteredProducts = initializeProducts,
                                  !.initialised = TRUE]
    /\ ui' = UiCall("content", "ngOnInit", content)
    /\ UNCHANGED << serviceVars, detail, search >>

\* The select's binding writes selectedCategoryId.
SetSelectedCategoryId ==
    \E value \in SelectValues :
        /\ content.initialised
        /\ value # content.selectedCategoryId
        /\ content' = [content EXCEPT !.selectedCategoryId = value]
        /\ ui' = UiCall("content", "setSelectedCategoryId", content)
        /\ UNCHANGED << serviceVars, detail, search >>

\* Mutant of CategoryIdOf: the selected value is used as it is.
CategoryIdOf_NoConversion(selected) == selected

\* const categoryId = Number(this.selectedCategoryId)
CategoryIdOf(selected) == Number(selected)

\* this.products.filter(product => product.categoryId === categoryId)
RECURSIVE FilterProducts(_, _)
FilterProducts(products, categoryId) ==
    IF products = << >> THEN << >>
    ELSE LET rest == FilterProducts(Tail(products), categoryId)
         IN  IF StrictEquals(Head(products).categoryId, categoryId)
             THEN << Head(products) >> \o rest
             ELSE rest

\* onCategoryChange, lines 122-129.
onCategoryChange ==
    /\ content.initialised
    /\ LET categoryId == CategoryIdOf(content.selectedCategoryId)
       IN  content' =
              [content EXCEPT !.filteredProducts =
                  IF StrictEquals(0, categoryId) THEN content.products
                  ELSE FilterProducts(content.products, categoryId)]
    /\ ui' = UiCall("content", "onCategoryChange", content)
    /\ UNCHANGED << serviceVars, detail, search >>

NextContent ==
    \/ ContentNgOnInit
    \/ SetSelectedCategoryId
    \/ onCategoryChange

SpecContent == Init /\ [][NextContent]_vars

-----------------------------------------------------------------------------
\* What the properties below are stated with.

\* The top-level call op has returned.
Returned(op) == call.op = op /\ call.status = "returned"

HasId(lines, id) == \E i \in 1..Len(lines) : lines[i].id = id

\* The sum of the quantities of a list of lines.
SumOfQuantities(lines) ==
    LET sum[n \in 0..Len(lines)] ==
            IF n = 0 THEN 0 ELSE sum[n - 1] + lines[n].quantity
    IN  sum[Len(lines)]

\* The lines whose id is not id, in their order.
WithoutId(lines, id) ==
    LET keep[n \in 0..Len(lines)] ==
            IF n = 0 THEN << >>
            ELSE IF lines[n].id = id THEN keep[n - 1]
                 ELSE Append(keep[n - 1], lines[n])
    IN  keep[Len(lines)]

\* One publication of lines and then of count: each value is stored by next()
\* and delivered to the feed's observers in subscription order.
PublishLog(lines, count) ==
    << NextEvent("lines", lines, 0) >>
    \o [i \in 1..Len(itemsObservers) |->
            NotifyEvent("lines", itemsObservers[i], lines, 0)]
    \o << NextEvent("count", << >>, count) >>
    \o [i \in 1..Len(countObservers) |->
            NotifyEvent("count", countObservers[i], << >>, count)]

-----------------------------------------------------------------------------
\* C1: in every reachable state the lines hold at most one line per product
\* id.
C1_Uniqueness ==
    \A i, j \in 1..Len(CurLines) :
        CurLines[i].id = CurLines[j].id => i = j

\* addToCart of an id already in a cart of two lines has returned.
C1_Witness ==
    /\ Returned("addToCart")
    /\ HasId(call.preLines, call.id)
    /\ Len(CurLines) = 2

\* C2: after every completed call the value of cartCount is the sum of the
\* quantities of the value of cartItems.
C2_CountConsistency ==
    call.status = "returned" => cartCount = SumOfQuantities(CurLines)

\* A completed call has left two lines with different quantities.
C2_Witness ==
    /\ call.status = "returned"
    /\ call.op \in {"addToCart", "removeFromCart", "updateQuantity", "clearCart"}
    /\ Len(CurLines) = 2
    /\ CurLines[1].quantity = 2
    /\ CurLines[2].quantity = MaxQty
    /\ cartCount = 2 + MaxQty

\* C3: while a subscriber's callback is running, the value of cartCount is
\* the sum of the quantities of the value of cartItems.
C3_ConsistentInCallbacks ==
    (~Idle /\ Top.cb # NoSub) => cartCount = SumOfQuantities(CurLines)

\* C4: in every reachable state every line has a quantity of at least 1.
C4_QuantityFloor ==
    \A i \in 1..Len(CurLines) : CurLines[i].quantity >= 1

\* updateQuantity with a quantity <= 0 on a line of the cart has returned
\* and a line is left.
C4_Witness ==
    /\ Returned("updateQuantity")
    /\ call.q <= 0
    /\ HasId(call.preLines, call.id)
    /\ Len(CurLines) >= 1

\* C5: addToCart of an id the cart holds adds 1 to that line's quantity,
\* keeps its name, price and image, and leaves the other lines and the
\* number of lines as they were.
C5_AddExisting ==
    (Returned("addToCart") /\ HasId(call.preLines, call.id)) =>
        /\ Len(CurLines) = Len(call.preLines)
        /\ \A i \in 1..Len(call.preLines) :
              CurLines[i] = IF call.preLines[i].id = call.id
                            THEN [call.preLines[i] EXCEPT !.quantity = @ + 1]
                            ELSE call.preLines[i]

\* addToCart was called with another name, price and image than the line's.
C5_Witness ==
    /\ Returned("addToCart")
    /\ \E i \in 1..Len(call.preLines) :
          /\ call.preLines[i].id = call.id
          /\ call.preLines[i].name # call.product.name
          /\ call.preLines[i].price # call.product.price
          /\ call.preLines[i].image # call.product.image
          /\ CurLines[i].quantity = 2

\* C6: addToCart of an id the cart does not hold appends one line with
\* quantity 1 and the call's name, price and image, and leaves the lines
\* before it as they were.
C6_AddNew ==
    (Returned("addToCart") /\ ~HasId(call.preLines, call.id)) =>
        CurLines = Append(call.preLines,
                          [id |-> call.product.id, name |-> call.product.name,
                           price |-> call.product.price,
                           image |-> call.product.image, quantity |-> 1])

\* addToCart of a new id into a cart that was not empty has returned.
C6_Witness ==
    /\ Returned("addToCart")
    /\ ~HasId(call.preLines, call.id)
    /\ Len(call.preLines) >= 1
    /\ call.preLines[1].quantity > 1

\* C7: removeFromCart of an id the cart does not hold notifies no observer
\* of either feed.
C7_AbsentRemoveSilent ==
    (call.op = "removeFromCart" /\ ~HasId(call.preLines, call.id)) =>
        \A i \in 1..Len(log) : log[i].kind # "notify"

\* C8: removeFromCart of an id the cart does not hold leaves the lines, their
\* order and the count as they were, and returns.
C8_AbsentRemoveFrame ==
    (call.op = "removeFromCart" /\ ~HasId(call.preLines, call.id)) =>
        /\ CurLines = call.preLines
        /\ cartCount = call.preCount
        /\ call.status \in {"running", "returned"}
        /\ Idle => call.status = "returned"

\* removeFromCart of an absent id on a cart of two lines has returned.
C8_Witness ==
    /\ Returned("removeFromCart")
    /\ ~HasId(call.preLines, call.id)
    /\ Len(CurLines) = 2

\* C9: updateQuantity(x, q) with q <= 0 and removeFromCart(x) have the same
\* outcome: the lines without x, their count, and one publication of each to
\* the observers.
C9_RemovalEquivalence ==
    (/\ call.status = "returned"
     /\ \/ call.op = "removeFromCart"
        \/ call.op = "updateQuantity" /\ call.q <= 0) =>
        /\ CurLines = WithoutId(call.preLines, call.id)
        /\ ~HasId(CurLines, call.id)
        /\ cartCount = SumOfQuantities(CurLines)
        /\ log = PublishLog(CurLines, cartCount)

\* updateQuantity(x, -5) on a line of the cart has returned, with observers
\* on both feeds and another line left.
C9_Witness ==
    /\ Returned("updateQuantity")
    /\ call.q = -5
    /\ HasId(call.preLines, call.id)
    /\ Len(CurLines) = 1
    /\ Len(itemsObservers) = 2
    /\ Len(countObservers) = 2

\* C10: updateQuantity(x, q) with q > 0 on a line of the cart sets that
\* line's quantity to q, keeps its position, name and price, leaves the other
\* lines as they were, and publishes the lines and the count.
C10_SetQuantity ==
    (Returned("updateQuantity") /\ call.q > 0 /\ HasId(call.preLines, call.id)) =>
        /\ Len(CurLines) = Len(call.preLines)
        /\ \A i \in 1..Len(call.preLines) :
              CurLines[i] = IF call.preLines[i].id = call.id
                            THEN [call.preLines[i] EXCEPT !.quantity = call.q]
                            ELSE call.preLines[i]
        /\ cartCount = SumOfQuantities(CurLines)
        /\ log = PublishLog(CurLines, cartCount)

\* addToCart(1, price 10), addToCart(2, price 5), updateQuantity(1, 3) with
\* observers on both feeds: count 4 and total price 35.
C10_Witness ==
    /\ Returned("updateQuantity")
    /\ call.id = 1
    /\ call.q = 3
    /\ Len(call.preLines) = 2
    /\ call.preLines[1].id = 1
    /\ call.preLines[1].quantity = 1
    /\ CurLines[1].price = 10
    /\ CurLines[2].price = 5
    /\ CurLines[2].quantity = 1
    /\ cartCount = 4
    /\ getTotalPrice = 35
    /\ itemsObservers # << >>
    /\ countObservers # << >>

-----------------------------------------------------------------------------
\* What the properties of the publications are stated with.

\* The sum of price * quantity of a list of lines.
SumOfPrices(lines) ==
    LET sum[n \in 0..Len(lines)] ==
            IF n = 0 THEN 0 ELSE sum[n - 1] + lines[n].price * lines[n].quantity
    IN  sum[Len(lines)]

\* The top-level call is one that changes a line or the list: addToCart,
\* clearCart, removeFromCart of an id in the cart, updateQuantity of an id in
\* the cart.
MutatingCall ==
    \/ call.op \in {"addToCart", "clearCart"}
    \/ call.op \in {"removeFromCart", "updateQuantity"}
       /\ HasId(call.preLines, call.id)

\* How many times the call notified subscriber s on a feed.
Notifications(feed, s) ==
    Cardinality({i \in 1..Len(log) :
                    log[i].kind = "notify" /\ log[i].feed = feed /\ log[i].sub = s})

InSeq(seq, x) == \E i \in 1..Len(seq) : seq[i] = x

-----------------------------------------------------------------------------
\* C11: updateQuantity(x, q) with q > 0 and no line for x creates no line,
\* leaves the lines and the count as they were, publishes nothing and
\* returns.
C11_AbsentSetIsNoOp ==
    (call.op = "updateQuantity" /\ call.q > 0 /\ ~HasId(call.preLines, call.id)) =>
        /\ CurLines = call.preLines
        /\ ~HasId(CurLines, call.id)
        /\ cartCount = call.preCount
        /\ log = << >>
        /\ Idle
        /\ call.status = "returned"

\* updateQuantity(99, MaxQty) was called with observers on both feeds and a
\* line in the cart.
C11_Witness ==
    /\ call.op = "updateQuantity"
    /\ call.id = 99
    /\ call.q = MaxQty
    /\ Len(CurLines) >= 1
    /\ itemsObservers # << >>
    /\ countObservers # << >>

\* C12: updateQuantity(x, q) with q <= 0 and no line for x notifies no
\* observer of either feed.
C12_AbsentNonPositiveSilent ==
    (call.op = "updateQuantity" /\ call.q <= 0 /\ ~HasId(call.preLines, call.id)) =>
        \A i \in 1..Len(log) : log[i].kind # "notify"

\* C13: clearCart leaves no line and count 0, publishes the empty list and
\* then 0, and getTotalPrice is 0 afterwards.
C13_Clear ==
    Returned("clearCart") =>
        /\ CurLines = << >>
        /\ cartCount = 0
        /\ log = PublishLog(<< >>, 0)
        /\ getTotalPrice = 0

\* clearCart on a cart of two lines has returned, with observers on both
\* feeds.
C13_Witness ==
    /\ Returned("clearCart")
    /\ Len(call.preLines) = 2
    /\ call.preCount > 2
    /\ itemsObservers # << >>
    /\ countObservers # << >>

\* C14: in every state (initially, after every call, inside every callback)
\* getTotalPrice is the sum of price * quantity over the current lines, and
\* a getTotalPrice call returns it.
C14_PriceCorrect ==
    /\ getTotalPrice = SumOfPrices(CurLines)
    /\ call.op = "getTotalPrice" => call.result = SumOfPrices(CurLines)

\* getTotalPrice returned 35 for the lines (price 10, quantity 3) and
\* (price 5, quantity 1).
C14_Witness ==
    /\ Returned("getTotalPrice")
    /\ call.result = 35
    /\ Len(CurLines) = 2
    /\ CurLines[1].quantity = 3
    /\ CurLines[2].price = 5

\* C15: a getTotalPrice call leaves the lines and the count as they were and
\* publishes nothing.
C15_PriceIsPure ==
    call.op = "getTotalPrice" =>
        /\ CurLines = call.preLines
        /\ cartCount = call.preCount
        /\ log = << >>
        /\ Idle

\* getTotalPrice was called on a cart with lines and observers.
C15_Witness ==
    /\ Returned("getTotalPrice")
    /\ call.result > 0
    /\ cartCount = MaxQty
    /\ itemsObservers # << >>
    /\ countObservers # << >>

\* C16: in a mutating call every publication and notification of the lines
\* comes before every one of the count, and when the call has returned every
\* observer of either feed has been notified of the current value.
C16_LinesBeforeCount ==
    MutatingCall =>
        /\ \A i, j \in 1..Len(log) :
              (log[i].feed = "lines" /\ log[j].feed = "count") => i < j
        /\ call.status = "returned" =>
              /\ \A k \in 1..Len(itemsObservers) :
                    InSeq(log, NotifyEvent("lines", itemsObservers[k], CurLines, 0))
              /\ \A k \in 1..Len(countObservers) :
                    InSeq(log, NotifyEvent("count", countObservers[k], << >>, cartCount))

\* removeFromCart of a line has returned, with two observers on each feed.
C16_Witness ==
    /\ Returned("removeFromCart")
    /\ HasId(call.preLines, call.id)
    /\ Len(CurLines) = 1
    /\ Len(itemsObservers) = 2
    /\ Len(countObservers) = 2

\* C17: a mutating call that has returned has notified every observer of the
\* lines exactly once and every observer of the count exactly once, also
\* when the published values equal the previous ones.
C17_ExactlyOnce ==
    (MutatingCall /\ call.status = "returned") =>
        \A s \in Subs :
            /\ Notifications("lines", s) = IF InSeq(itemsObservers, s) THEN 1 ELSE 0
            /\ Notifications("count", s) = IF InSeq(countObservers, s) THEN 1 ELSE 0

\* updateQuantity(x, q) with q the quantity the line already had has
\* returned, with two observers on each feed.
C17_Witness ==
    /\ Returned("updateQuantity")
    /\ \E i \in 1..Len(call.preLines) :
          /\ call.preLines[i].id = call.id
          /\ call.preLines[i].quantity = call.q
    /\ CurLines = call.preLines
    /\ cartCount = call.preCount
    /\ Len(itemsObservers) = 2
    /\ Len(countObservers) = 2

\* C18: a subscription is answered at once by exactly one notification with
\* the feed's current value.
C18_ReplayOnSubscribe ==
    /\ call.op = "subscribeItems" =>
          LET s == itemsObservers[Len(itemsObservers)]
          IN  /\ log = << NotifyEvent("lines", s, CurLines, 0) >>
              /\ subs[s].gotLines
              /\ subs[s].lines = CurLines
              /\ subs[s].linesRef = cartItems
    /\ call.op = "subscribeCount" =>
          LET s == countObservers[Len(countObservers)]
          IN  /\ log = << NotifyEvent("count", s, << >>, cartCount) >>
              /\ subs[s].gotCount
              /\ subs[s].count = cartCount

\* A second observer has subscribed to the lines of a cart of two lines.
C18_Witness ==
    /\ call.op = "subscribeItems"
    /\ Len(itemsObservers) = 2
    /\ Len(CurLines) = 2
    /\ cartCount > 2

\* C19: an operation below another on the call stack (one whose callback
\* made a call) has finished delivering its lines and its count.
C19_NoInterleaving ==
    \A i \in 1..(Len(stack) - 1) :
        stack[i].pc = "count" /\ stack[i].pending = << >>

\* C20: when an observer of the lines is called, cartCount is already the
\* sum of the quantities of the lines delivered.
C20_CountReadyAtLinesDelivery ==
    (~Idle /\ Top.pc = "items" /\ Top.cb # NoSub) =>
        cartCount = SumOfQuantities(LinesOf(objs, arrays, Top.val))

\* C21: a write by a collaborator to a lines value it received from the feed
\* (to the list or to one of its line records) leaves the store's current
\* lines, its count and the result of getTotalPrice() as they were.
C21_OnlyOperationsChange ==
    call.op = "collaboratorWrite" =>
        /\ CurLines = call.preLines
        /\ cartCount = call.preCount
        /\ getTotalPrice = SumOfPrices(call.preLines)

\* C22: before any operation the lines are empty and the count is 0, and a
\* subscription made then is answered with the empty list (cartItems$) or
\* with 0 (cartCount$).
C22_InitialState ==
    /\ [](call.op = "new" => CurLines = << >> /\ cartCount = 0)
    /\ [][call.op = "new" =>
            /\ call'.op = "subscribeItems" =>
                  \E s \in Subs :
                      /\ itemsObservers' = << s >>
                      /\ subs'[s].gotLines /\ subs'[s].lines = << >>
                      /\ log' = << NotifyEvent("lines", s, << >>, 0) >>
            /\ call'.op = "subscribeCount" =>
                  \E s \in Subs :
                      /\ countObservers' = << s >>
                      /\ subs'[s].gotCount /\ subs'[s].count = 0
                      /\ log' = << NotifyEvent("count", s, << >>, 0) >>]_vars

\* A first subscriber has joined cartCount$ of a service nothing has
\* been added to.
C22_Witness ==
    /\ Returned("subscribeCount")
    /\ countObservers = << "badge" >>
    /\ itemsObservers = << >>
    /\ call.preLines = << >> /\ call.preCount = 0
    /\ CurLines = << >> /\ cartCount = 0
    /\ subs["badge"].gotCount /\ ~subs["page"].gotCount

\* C23: no call of addToCart, removeFromCart, updateQuantity, clearCart or
\* getTotalPrice ends in an error: whatever the cart holds and whatever id
\* and quantity are passed, the call is accepted, an operation in progress
\* always has a next step, and a call that is over has returned.  Whether a
\* call is accepted depends on the cart alone, and every cart that is
\* reached is also the cart some getTotalPrice() returned from, so the
\* acceptance of every call is asked for in those states.
C23_NoErrorOutcome ==
    /\ call.status \in {"running", "returned"}
    /\ Idle <=> call.status = "returned"
    /\ ~Idle => ENABLED (NotifyItems \/ UpdateCartCount \/ NotifyCount \/ Return)
    /\ Returned("getTotalPrice") =>
          /\ \A productId \in WideProductIds :
                ENABLED (removeFromCart(productId) /\ UNCHANGED call)
          /\ \A productId \in WideProductIds, quantity \in Quantities :
                ENABLED (updateQuantity(productId, quantity) /\ UNCHANGED call)
          /\ \A product \in WideProductInputs :
                \/ \E i \in 1..Len(CurLines) :
                      CurLines[i].id = product.id /\ CurLines[i].quantity >= MaxQty
                \/ ENABLED (addToCart(product) /\ UNCHANGED call)
          /\ ENABLED (clearCart /\ UNCHANGED call)
          /\ getTotalPrice \in Nat

\* updateQuantity has returned from a call with an id that is in no line
\* and a negative quantity, made on a cart with three lines.
C23_Witness ==
    /\ Returned("updateQuantity")
    /\ call.id = 99
    /\ call.q < 0
    /\ Len(call.preLines) = 3

\* The product ids of a list of lines, in order.
IdsOf(lines) == [i \in 1..Len(lines) |-> lines[i].id]

\* C24: the relative order of the lines is stable.  From the call of an
\* operation on, two lines that were in the cart before the call and still
\* are stand in the order they stood in, and a line the call added stands
\* after every line that was there: the lines are ordered by first insertion
\* of the ids present.
C24_StableOrder ==
    call.op \in {"addToCart", "removeFromCart", "updateQuantity", "clearCart"} =>
        LET pre == IdsOf(call.preLines)
            cur == IdsOf(CurLines)
            Pos(x) == CHOOSE k \in 1..Len(pre) : pre[k] = x
        IN  \A i, j \in 1..Len(cur) :
                i < j =>
                    /\ InSeq(pre, cur[j]) => InSeq(pre, cur[i])
                    /\ InSeq(pre, cur[i]) /\ InSeq(pre, cur[j]) =>
                           Pos(cur[i]) < Pos(cur[j])

\* removeFromCart has removed the middle one of three lines.
C24_Witness ==
    /\ Returned("removeFromCart")
    /\ Len(call.preLines) = 3
    /\ call.id = call.preLines[2].id
    /\ IdsOf(CurLines) = << call.preLines[1].id, call.preLines[3].id >>

\* C25: removeFromCart(x) on a cart with a line for x removes that line and
\* no other: x is in no line afterwards, every other line is there with the
\* id, name, price, image and quantity it had, the count has gone down by
\* the quantity of the removed line, and the lines and then the count were
\* published.
C25_RemovePresent ==
    (Returned("removeFromCart") /\ HasId(call.preLines, call.id)) =>
        LET pre == call.preLines
            removed == pre[CHOOSE i \in 1..Len(pre) : pre[i].id = call.id]
        IN  /\ ~HasId(CurLines, call.id)
            /\ Len(CurLines) = Len(pre) - 1
            /\ \A i \in 1..Len(pre) :
                  pre[i].id # call.id => InSeq(CurLines, pre[i])
            /\ cartCount = call.preCount - removed.quantity
            /\ log = PublishLog(CurLines, cartCount)

\* removeFromCart has removed a line of several units from a cart of two
\* lines, with both display surfaces subscribed to both feeds.
C25_Witness ==
    /\ Returned("removeFromCart")
    /\ Len(call.preLines) = 2
    /\ \E i \in 1..2 : call.preLines[i].id = call.id /\ call.preLines[i].quantity > 1
    /\ Len(CurLines) = 1
    /\ Len(itemsObservers) = 2
    /\ Len(countObservers) = 2

\* The set of product ids of a list of lines.
IdSet(lines) == {lines[i].id : i \in 1..Len(lines)}

\* C26: only addToCart creates lines.  From the call of removeFromCart,
\* updateQuantity or clearCart on, the ids in the lines are among the ids
\* that were there before the call; from the call of addToCart on, every
\* id that was there before the call is still there, and the only id that
\* can be new is the one passed.
C26_OnlyAddCreates ==
    /\ call.op \in {"removeFromCart", "updateQuantity", "clearCart"} =>
           IdSet(CurLines) \subseteq IdSet(call.preLines)
    /\ call.op = "addToCart" =>
           /\ IdSet(call.preLines) \subseteq IdSet(CurLines)
           /\ IdSet(CurLines) \subseteq IdSet(call.preLines) \cup {call.id}

\* updateQuantity has returned from a call with a positive quantity for
\* product 3, made on a cart that holds products 1 and 2 only.
C26_Witness ==
    /\ Returned("updateQuantity")
    /\ call.q > 0
    /\ call.id = 3
    /\ ~HasId(call.preLines, 3)
    /\ IdSet(CurLines) = {1, 2}

\* C27: with two or more subscribers on a feed, when a top-level operation
\* has returned (a callback may have called an operation meanwhile), the
\* value each subscriber of cartItems$ received last is the service's
\* current list, and the value each subscriber of cartCount$ received last
\* is the service's current count.
C27_SubscribersCurrent ==
    (Idle /\ MutatingCall /\ call.status = "returned") =>
        /\ Len(itemsObservers) >= 2 =>
              \A i \in 1..Len(itemsObservers) :
                  /\ subs[itemsObservers[i]].linesRef = cartItems
                  /\ subs[itemsObservers[i]].lines = CurLines
        /\ Len(countObservers) >= 2 =>
              \A i \in 1..Len(countObservers) :
                  subs[countObservers[i]].count = cartCount

\* C28: a list delivered to a subscriber is a snapshot.  The array a
\* subscriber received last shows, whenever it is read, the lines it showed
\* when it was delivered: the same ids in the same order with the same
\* quantities, whatever was called since.
C28_DeliveredIsSnapshot ==
    \A s \in Subs :
        subs[s].gotLines =>
            LinesOf(objs, arrays, subs[s].linesRef) = subs[s].lines

\* C29: every addToCart raises the count by exactly 1 and the result of
\* getTotalPrice() by the price stored in the line of the product: the price
\* passed when the line was created, which for an existing line need not be
\* the price passed in this call.
C29_AddIncrements ==
    Returned("addToCart") =>
        \E i \in 1..Len(CurLines) :
            /\ CurLines[i].id = call.id
            /\ CurLines[i].price =
                  IF HasId(call.preLines, call.id)
                  THEN call.preLines[CHOOSE k \in 1..Len(call.preLines) :
                                         call.preLines[k].id = call.id].price
                  ELSE call.product.price
            /\ cartCount = call.preCount + 1
            /\ getTotalPrice = SumOfPrices(call.preLines) + CurLines[i].price

\* addToCart has returned from a call that passed price 12 for a product
\* whose line was created with price 10, in a cart of two lines.
C29_Witness ==
    /\ Returned("addToCart")
    /\ call.product.price = 12
    /\ Len(call.preLines) = 2
    /\ \E k \in 1..2 : call.preLines[k].id = call.id /\ call.preLines[k].price = 10
    /\ getTotalPrice = SumOfPrices(call.preLines) + 10

\* The call that has returned repeats the call made before it.
SameCallTwice ==
    /\ call.status = "returned"
    /\ call.prev.op = call.op
    /\ call.prev.id = call.id
    /\ call.prev.q = call.q

\* C30: removeFromCart(x), clearCart() and updateQuantity(x, q) are
\* idempotent on the lines and the count: the second of two such calls in a
\* row leaves the cart as the first left it.  And addToCart for a product
\* that is not in the cart followed by removeFromCart of that product leaves
\* the lines and the count as they were before the two calls.
C30_Algebra ==
    /\ (SameCallTwice /\ call.op \in {"removeFromCart", "clearCart", "updateQuantity"}) =>
           /\ CurLines = call.preLines
           /\ cartCount = call.preCount
    /\ ( /\ Returned("removeFromCart")
         /\ call.prev.op = "addToCart"
         /\ call.prev.id = call.id
         /\ ~HasId(call.prev.preLines, call.id) ) =>
           /\ CurLines = call.prev.preLines
           /\ cartCount = call.prev.preCount

\* updateQuantity(x, q) with q > 0 has returned for the second time in a
\* row, and the first of the two calls had changed the quantity of x.
C30_Witness ==
    /\ SameCallTwice
    /\ call.op = "updateQuantity"
    /\ call.q > 0
    /\ HasId(call.prev.preLines, call.id)
    /\ call.prev.preLines # call.preLines
    /\ Len(CurLines) = 2

\* The quantity of the line of product id in a list of lines, 0 without one.
QuantityOf(lines, id) ==
    IF HasId(lines, id)
    THEN lines[CHOOSE i \in 1..Len(lines) : lines[i].id = id].quantity
    ELSE 0

\* C31: ProductDetailComponent.addToCart adds exactly one unit of the loaded
\* product per call, whatever quantity is selected in the component: the
\* service is called once, with the product's id, name, price and image,
\* and the line of the product and the count have one unit more.  While
\* product is null (not loaded yet, or not found) the service is not called
\* and the cart stays as it was.
C31_AddsOneUnit ==
    (ui.comp = "detail" /\ ui.op = "addToCart" /\ Idle) =>
        IF ui.pre.product = JSNull
        THEN /\ call = ui.preCall
             /\ CurLines = ui.preLines
             /\ cartCount = ui.preCount
        ELSE /\ Returned("addToCart")
             /\ call.product = CartProduct(ui.pre.product)
             /\ call.preLines = ui.preLines
             /\ Cardinality({k \in 1..Len(log) :
                                log[k].kind = "next" /\ log[k].feed = "lines"}) = 1
             /\ QuantityOf(CurLines, ui.pre.product.id)
                    = QuantityOf(ui.preLines, ui.pre.product.id) + 1
             /\ SumOfQuantities(CurLines) = SumOfQuantities(ui.preLines) + 1
             /\ cartCount = ui.preCount + 1

\* addToCart of the component has returned with 5 selected as quantity and
\* a line of the product already in the cart: the count went from 1 to 2.
C31_Witness ==
    /\ ui.comp = "detail" /\ ui.op = "addToCart" /\ Idle
    /\ ui.pre.product # JSNull
    /\ ui.pre.quantity = 5
    /\ ui.preCount = 1
    /\ cartCount = 2

\* C32: in ProductDetailComponent, whatever increaseQuantity and
\* decreaseQuantity calls were made, quantity is at least 1; it is at most
\* the stock of the product once a product (of stock 1 or more) is loaded;
\* and a call of increaseQuantity made while product is null leaves
\* quantity as it was.
C32_QuantityBounds ==
    /\ detail.quantity >= 1
    /\ (detail.product # JSNull /\ detail.product.stock >= 1) =>
           detail.quantity <= detail.product.stock
    /\ (ui.comp = "detail" /\ ui.op = "increaseQuantity"
            /\ ui.pre.product = JSNull) =>
           detail.quantity = ui.pre.quantity

\* increaseQuantity was called with quantity at the stock of the loaded
\* product and has left it there.
C32_Witness ==
    /\ ui.comp = "detail" /\ ui.op = "increaseQuantity"
    /\ ui.pre.product # JSNull
    /\ ui.pre.quantity = ui.pre.product.stock
    /\ detail.quantity = detail.product.stock

\* The product the component is to show for its route: the mock product
\* whose id is the number the route's 'id' stands for, null without one.
ExpectedProduct ==
    LET id == Number(detail.routeParam)
        hits == {k \in 1..Len(mockProducts) : Num(mockProducts[k].id) = id}
    IN  IF hits = {} THEN JSNull ELSE mockProducts[CHOOSE k \in hits : TRUE]

\* C33: in ProductDetailComponent, once ngOnInit has been called loading
\* becomes false at some time, and it never becomes true again; product is
\* null for as long as loading is true; and at the step that ends loading
\* product becomes the mock product the route's id names, or null when
\* there is none.
C33_LoadingEnds ==
    /\ detail.initialised ~> ~detail.loading
    /\ [][~detail.loading => ~detail'.loading]_vars
    /\ [](detail.loading => detail.product = JSNull)
    /\ [][(detail.loading /\ ~detail'.loading) =>
              detail'.product = ExpectedProduct]_vars

\* Loading has ended for the route '02' with the second mock product.
C33_Witness ==
    /\ detail.routeParam = Str(<< "0", "2" >>)
    /\ ~detail.loading
    /\ detail.product = mockProducts[2]
    /\ detail.timers = << >>

\* C34: in SearchBarComponent, when onSearchInput or clearSearch has been
\* called, isSearching is true exactly if searchTerm is not empty, and the
\* call has emitted one searchChange event, which carries the searchTerm
\* of that moment: the empty string after clearSearch.
C34_SearchBar ==
    (ui.comp = "search" /\ ui.op \in {"onSearchInput", "clearSearch"}) =>
        /\ search.isSearching <=> search.searchTerm # << >>
        /\ ui.emitted = << search.searchTerm >>
        /\ ui.op = "clearSearch" => search.searchTerm = << >>
        /\ ui.op = "onSearchInput" => search.searchTerm = ui.pre.searchTerm

\* onSearchInput was called with a blank typed into a field that was not
\* searching: isSearching is true and the blank was emitted.
C34_Witness ==
    /\ ui.comp = "search" /\ ui.op = "onSearchInput"
    /\ search.searchTerm = << " " >>
    /\ ~ui.pre.isSearching
    /\ search.isSearching
    /\ ui.emitted = << << " " >> >>

\* The number a selected value stands for: the number itself, or the
\* number the digit of an option's value names.
SelectedNumber(value) ==
    IF value.t = "number" THEN value.n
    ELSE CHOOSE n \in 0..9 : value.s = << DigitChars[n + 1] >>

\* C35: in ContentComponent, when ngOnInit or onCategoryChange has been
\* called, filteredProducts is the whole of products if the selected
\* category id is 0, and otherwise the products of that category and no
\* others, in the order they have in products; and onCategoryChange leaves
\* products, categories and the selection as they were.
C35_FilteredProducts ==
    (ui.comp = "content" /\ ui.op \in {"ngOnInit", "onCategoryChange"}) =>
        LET selected == SelectedNumber(content.selectedCategoryId)
            wanted == {k \in 1..Len(content.products) :
                          selected = 0 \/ content.products[k].categoryId = selected}
            filtered == content.filteredProducts
        IN  /\ content.products = initializeProducts
            /\ Len(filtered) = Cardinality(wanted)
            /\ \A k \in wanted : InSeq(filtered, content.products[k])
            /\ \A i, j \in 1..Len(filtered) :
                  i < j => filtered[i].id < filtered[j].id
            /\ ui.op = "onCategoryChange" =>
                  /\ content.products = ui.pre.products
                  /\ content.categories = ui.pre.categories
                  /\ content.selectedCategoryId = ui.pre.selectedCategoryId

\* onCategoryChange was called with the option '4' selected while the
\* products of another category were shown: the two products of category 4
\* are shown.
C35_Witness ==
    /\ ui.comp = "content" /\ ui.op = "onCategoryChange"
    /\ content.selectedCategoryId = Str(<< "4" >>)
    /\ Len(ui.pre.filteredProducts) = 3
    /\ content.filteredProducts = << initializeProducts[6], initializeProducts[8] >>

====
